---- MODULE Spec2Model ----
(***************************************************************************)
(* SmartSpend AI: the App component's session state (transactions,        *)
(* loading, error, pastedText, inputMode), its handlers, the useMemo      *)
(* aggregation (categorySummary, totalSpent) and the analyzeStatement     *)
(* service client.                                                        *)
(*                                                                         *)
(* A Transaction is modelled by the two fields the handlers and the       *)
(* aggregation read, amount and category; id, date, merchant and          *)
(* originalDescription are only rendered.                                 *)
(***************************************************************************)
EXTENDS Integers, Sequences, FiniteSets, TLC

VARIABLES
    transactions,     \* useState<Transaction[]>([])
    loading,          \* useState(false)
    error,            \* useState<string | null>(null)
    pastedText,       \* useState(''), a sequence of characters
    inputMode,        \* useState<'text' | 'file'>('file')
    categorySummary,  \* useMemo value, recomputed when transactions changes
    totalSpent,       \* useMemo value, recomputed when transactions changes
    readers,          \* FileReader reads started whose onload has not fired
    inFlight,         \* analyzeStatement calls issued and not yet completed
    mounted           \* FALSE once an error thrown while rendering unmounted App

vars == <<transactions, loading, error, pastedText, inputMode,
          categorySummary, totalSpent, readers, inFlight, mounted>>

(***************************************************************************)
(* Bounds                                                                  *)
(***************************************************************************)
MaxAmount == 1     \* amounts range over -MaxAmount..MaxAmount
MaxBatch == 2      \* transactions in one service response
MaxTx == 3         \* length of the accumulated list
MaxText == 2       \* characters of pasted text
MaxPending == 2    \* file reads plus requests outstanding at once

(***************************************************************************)
(* types.ts, constants.ts                                                  *)
(***************************************************************************)
FOOD == "Food & Dining"
SHOPPING == "Clothing & Shopping"
HEALTH == "Health & Wellness"
TRANSPORT == "Travel & Transport"
UTILITIES == "Utilities & Bills"
ENTERTAINMENT == "Entertainment"
HOUSING == "Housing & Rent"
MISC == "Miscellaneous"

Category == {FOOD, SHOPPING, HEALTH, TRANSPORT, UTILITIES, ENTERTAINMENT, HOUSING, MISC}

CATEGORY_COLORS ==
    (FOOD :> "#F87171") @@ (SHOPPING :> "#60A5FA") @@ (HEALTH :> "#34D399") @@
    (TRANSPORT :> "#FBBF24") @@ (UTILITIES :> "#A78BFA") @@
    (ENTERTAINMENT :> "#F472B6") @@ (HOUSING :> "#FB923C") @@ (MISC :> "#94A3B8")

\* A label the service could return that is not in the enumeration.
Groceries == "Groceries"

Null == "<null>"
NoFile == "<undefined>"
Space == " "
Chars == {Space, "x"}

\* The sequences over S of length at most n.
SeqsUpTo(S, n) == UNION {[1..k -> S] : k \in 0..n}

Amounts == (0 - MaxAmount)..MaxAmount

\* Inputs of the aggregation.
TxPool == [amount : Amounts, category : {FOOD, SHOPPING, Groceries}]

\* Records the service returns in the session model.
ServiceTx ==
    {[amount |-> 1, category |-> FOOD], [amount |-> 0 - 1, category |-> Groceries]}

Texts == SeqsUpTo(Chars, MaxText)

(***************************************************************************)
(* String.prototype.trim and the || operator on strings                    *)
(***************************************************************************)
RECURSIVE TrimStart(_)
TrimStart(s) ==
    IF s # <<>> /\ Head(s) = Space THEN TrimStart(Tail(s)) ELSE s

RECURSIVE TrimEnd(_)
TrimEnd(s) ==
    IF s # <<>> /\ s[Len(s)] = Space THEN TrimEnd(SubSeq(s, 1, Len(s) - 1)) ELSE s

TrimIdentity(s) == s

Trim(s) == TrimEnd(TrimStart(s))

OrElse(a, b) == IF a = "" \/ a = Null THEN b ELSE a

(***************************************************************************)
(* categorySummary and totalSpent (useMemo bodies)                         *)
(***************************************************************************)
ColorOf(c) == IF c \in DOMAIN CATEGORY_COLORS THEN CATEGORY_COLORS[c] ELSE "#94A3B8"

\* Position of category c among the keys of summary, 0 when absent.
KeyIndex(summary, c) ==
    IF \E i \in 1..Len(summary) : summary[i].category = c
    THEN CHOOSE i \in 1..Len(summary) : summary[i].category = c
    ELSE 0

AddTxOverwrite(summary, t) ==
    LET idx == KeyIndex(summary, t.category)
        base == IF idx = 0
                THEN Append(summary, [category |-> t.category, total |-> 0,
                                      count |-> 0, color |-> ColorOf(t.category)])
                ELSE summary
        i == IF idx = 0 THEN Len(base) ELSE idx
    IN [base EXCEPT ![i].total = t.amount, ![i].count = @ + 1]

\* The body of transactions.forEach: create the entry on first sight, then add.
AddTx(summary, t) ==
    LET idx == KeyIndex(summary, t.category)
        base == IF idx = 0
                THEN Append(summary, [category |-> t.category, total |-> 0,
                                      count |-> 0, color |-> ColorOf(t.category)])
                ELSE summary
        i == IF idx = 0 THEN Len(base) ELSE idx
    IN [base EXCEPT ![i].total = @ + t.amount, ![i].count = @ + 1]

RECURSIVE GroupByCategory(_, _)
GroupByCategory(summary, txs) ==
    IF txs = <<>> THEN summary
    ELSE GroupByCategory(AddTx(summary, Head(txs)), Tail(txs))

\* Insert x into a sequence sorted by (a, b) => b.total - a.total, after every
\* element it does not precede (Array.prototype.sort is stable).
RECURSIVE InsertSorted(_, _)
InsertSorted(sorted, x) ==
    IF sorted = <<>> THEN <<x>>
    ELSE IF x.total - Head(sorted).total > 0
         THEN <<x>> \o sorted
         ELSE <<Head(sorted)>> \o InsertSorted(Tail(sorted), x)

RECURSIVE SortFrom(_, _)
SortFrom(sorted, rest) ==
    IF rest = <<>> THEN sorted
    ELSE SortFrom(InsertSorted(sorted, Head(rest)), Tail(rest))

SortUnsorted(s) == s

SortByTotalDesc(s) == SortFrom(<<>>, s)

ComputeCategorySummary(txs) == SortByTotalDesc(GroupByCategory(<<>>, txs))

RECURSIVE Reduce(_, _)
Reduce(sum, txs) ==
    IF txs = <<>> THEN sum ELSE Reduce(sum + Head(txs).amount, Tail(txs))

ComputeTotalSpent(txs) == Reduce(0, txs)

\* A render after setTransactions: both memos are recomputed from the new list.
Render(txs) ==
    /\ categorySummary' = ComputeCategorySummary(txs)
    /\ totalSpent' = ComputeTotalSpent(txs)

(***************************************************************************)
(* services/geminiService: analyzeStatement                                *)
(***************************************************************************)
FailMessage == "Failed to analyze statement. Please ensure the input is clear."
FallbackMessage == "An error occurred during analysis."

Batches == SeqsUpTo(ServiceTx, MaxBatch)

\* What JSON.parse(response.text) can yield: an object with or without a
\* transactions array and with or without totalAmount.
Payloads ==
    [hasTransactions : {TRUE}, transactions : Batches, hasTotalAmount : BOOLEAN]
    \cup [hasTransactions : {FALSE}, transactions : {<<>>}, hasTotalAmount : BOOLEAN]

NoPayload == [hasTransactions |-> FALSE, transactions |-> <<>>, hasTotalAmount |-> FALSE]

\* What the service call can do: reject, answer with text that is not JSON,
\* or answer with JSON text.
ServiceResponses ==
    {[kind |-> "rejected", value |-> NoPayload], [kind |-> "garbage", value |-> NoPayload]}
    \cup [kind : {"json"}, value : Payloads]

\* try { generateContent; JSON.parse; return result as AnalysisResult }
\* catch { throw new Error(FailMessage) }
AnalyzeStatement(resp) ==
    IF resp.kind = "json"
    THEN [threw |-> FALSE, message |-> "", result |-> resp.value]
    ELSE [threw |-> TRUE, message |-> FailMessage, result |-> NoPayload]

(***************************************************************************)
(* App handlers                                                            *)
(***************************************************************************)
MergeBatchFirst(prev, batch) == batch \o prev

\* prev => [...prev, ...result.transactions]
Merge(prev, batch) == prev \o batch

\* processAnalysis up to the await: setLoading(true); setError(null); the call.
ProcessAnalysisStart ==
    /\ loading' = TRUE
    /\ error' = Null
    /\ inFlight' = inFlight + 1

SetInputMode(m) ==
    /\ mounted
    /\ inputMode' = m
    /\ UNCHANGED <<transactions, loading, error, pastedText, categorySummary,
                   totalSpent, readers, inFlight, mounted>>

\* The textarea's onChange; the textarea is disabled while loading.
SetPastedText(s) ==
    /\ mounted
    /\ inputMode = "text"
    /\ ~loading
    /\ pastedText' = s
    /\ UNCHANGED <<transactions, loading, error, inputMode, categorySummary,
                   totalSpent, readers, inFlight, mounted>>

\* The file input's onChange; the input is disabled while loading.
HandleFileUpload(file) ==
    /\ mounted
    /\ inputMode = "file"
    /\ ~loading
    /\ IF file = NoFile
       THEN UNCHANGED vars
       ELSE /\ readers + inFlight < MaxPending
            /\ readers' = readers + 1
            /\ UNCHANGED <<transactions, loading, error, pastedText, inputMode,
                           categorySummary, totalSpent, inFlight, mounted>>

\* reader.onload: processAnalysis({data, mimeType}) up to its await.
ReaderOnload ==
    /\ mounted
    /\ readers > 0
    /\ readers' = readers - 1
    /\ ProcessAnalysisStart
    /\ UNCHANGED <<transactions, pastedText, inputMode, categorySummary,
                   totalSpent, mounted>>

\* The read fails: no onerror handler is installed, nothing else happens.
ReaderError ==
    /\ mounted
    /\ readers > 0
    /\ readers' = readers - 1
    /\ UNCHANGED <<transactions, loading, error, pastedText, inputMode,
                   categorySummary, totalSpent, inFlight, mounted>>

\* The Analyze Text button; it is disabled while loading.
HandlePasteSubmit ==
    /\ mounted
    /\ inputMode = "text"
    /\ ~loading
    /\ IF Trim(pastedText) = <<>>
       THEN UNCHANGED vars
       ELSE /\ readers + inFlight < MaxPending
            /\ ProcessAnalysisStart
            /\ UNCHANGED <<transactions, pastedText, inputMode, categorySummary,
                           totalSpent, readers, mounted>>

CompleteKeepLoading(resp) ==
    LET out == AnalyzeStatement(resp) IN
    /\ mounted
    /\ inFlight > 0
    /\ inFlight' = inFlight - 1
    /\ IF out.threw
       THEN /\ error' = OrElse(out.message, FallbackMessage)
            /\ UNCHANGED <<transactions, loading, pastedText, inputMode,
                           categorySummary, totalSpent, readers, mounted>>
       ELSE /\ out.result.hasTransactions
            /\ Len(transactions) + Len(out.result.transactions) <= MaxTx
            /\ transactions' = Merge(transactions, out.result.transactions)
            /\ Render(transactions')
            /\ loading' = FALSE
            /\ UNCHANGED <<error, pastedText, inputMode, readers, mounted>>

\* processAnalysis from the await on: the try's setTransactions, the catch's
\* setError, the finally's setLoading(false), and the render that follows.
\* Spreading an absent transactions field throws inside the state updater,
\* while App renders: no error boundary exists and App is unmounted.
AnalyzeCompletes(resp) ==
    LET out == AnalyzeStatement(resp) IN
    /\ mounted
    /\ inFlight > 0
    /\ inFlight' = inFlight - 1
    /\ IF out.threw
       THEN /\ error' = OrElse(out.message, FallbackMessage)
            /\ loading' = FALSE
            /\ UNCHANGED <<transactions, pastedText, inputMode, categorySummary,
                           totalSpent, readers, mounted>>
       ELSE IF ~out.result.hasTransactions
       THEN /\ mounted' = FALSE
            /\ UNCHANGED <<transactions, loading, error, pastedText, inputMode,
                           categorySummary, totalSpent, readers>>
       ELSE /\ Len(transactions) + Len(out.result.transactions) <= MaxTx
            /\ transactions' = Merge(transactions, out.result.transactions)
            /\ Render(transactions')
            /\ loading' = FALSE
            /\ UNCHANGED <<error, pastedText, inputMode, readers, mounted>>

ClearDataKeepError(confirmed) ==
    /\ mounted
    /\ Len(transactions) > 0
    /\ IF confirmed
       THEN /\ transactions' = <<>>
            /\ pastedText' = <<>>
            /\ Render(transactions')
            /\ UNCHANGED <<error, loading, inputMode, readers, inFlight, mounted>>
       ELSE UNCHANGED vars

\* The Clear All button, rendered when the list is not empty; confirmed is
\* the answer of window.confirm.
ClearData(confirmed) ==
    /\ mounted
    /\ Len(transactions) > 0
    /\ IF confirmed
       THEN /\ transactions' = <<>>
            /\ pastedText' = <<>>
            /\ error' = Null
            /\ Render(transactions')
            /\ UNCHANGED <<loading, inputMode, readers, inFlight, mounted>>
       ELSE UNCHANGED vars

Init ==
    /\ transactions = <<>>
    /\ loading = FALSE
    /\ error = Null
    /\ pastedText = <<>>
    /\ inputMode = "file"
    /\ categorySummary = ComputeCategorySummary(<<>>)
    /\ totalSpent = ComputeTotalSpent(<<>>)
    /\ readers = 0
    /\ inFlight = 0
    /\ mounted = TRUE

Next ==
    \/ \E m \in {"file", "text"} : SetInputMode(m)
    \/ \E s \in Texts : SetPastedText(s)
    \/ \E file \in {NoFile, "statement.png"} : HandleFileUpload(file)
    \/ ReaderOnload
    \/ ReaderError
    \/ HandlePasteSubmit
    \/ \E resp \in ServiceResponses : AnalyzeCompletes(resp)
    \/ \E confirmed \in BOOLEAN : ClearData(confirmed)

Spec == Init /\ [][Next]_vars

\* The service eventually responds or fails, and a started read ends.
FairSpec ==
    /\ Spec
    /\ WF_vars(\E resp \in ServiceResponses : AnalyzeCompletes(resp))
    /\ WF_vars(ReaderOnload \/ ReaderError)

(***************************************************************************)
(* The aggregation alone: the list grows one record at a time over the    *)
(* whole pool and each render recomputes the memos.                        *)
(***************************************************************************)
AppendAndRender(t) ==
    /\ Len(transactions) < MaxTx
    /\ transactions' = Merge(transactions, <<t>>)
    /\ Render(transactions')
    /\ UNCHANGED <<loading, error, pastedText, inputMode, readers, inFlight, mounted>>

NextAgg == \E t \in TxPool : AppendAndRender(t)

SpecAgg == Init /\ [][NextAgg]_vars

(***************************************************************************)
(* Properties                                                              *)
(***************************************************************************)
SessionState ==
    IF loading THEN "Loading" ELSE IF error # Null THEN "Error" ELSE "Idle"

IsBlank(s) == \A i \in 1..Len(s) : s[i] = Space

Conforms(payload) ==
    /\ payload.hasTransactions
    /\ payload.hasTotalAmount
    /\ \A i \in 1..Len(payload.transactions) : payload.transactions[i].category \in Category

Throwing == {r \in ServiceResponses : r.kind # "json"}
NonConforming == {r \in ServiceResponses : r.kind # "rejected" /\ (r.kind = "json" => ~Conforms(r.value))}
Merged == {r \in ServiceResponses : r.kind = "json" /\ r.value.hasTransactions}

RECURSIVE SumTotal(_)
SumTotal(summary) ==
    IF summary = <<>> THEN 0 ELSE Head(summary).total + SumTotal(Tail(summary))

RECURSIVE SumCount(_)
SumCount(summary) ==
    IF summary = <<>> THEN 0 ELSE Head(summary).count + SumCount(Tail(summary))

RECURSIVE SumAmount(_)
SumAmount(txs) ==
    IF txs = <<>> THEN 0 ELSE SumAmount(SubSeq(txs, 1, Len(txs) - 1)) + txs[Len(txs)].amount

\* C1: at most one analyze request is in flight in every reachable state.
C1_AtMostOneInFlight == inFlight <= 1

\* C2: when analyzeStatement throws, the session is in Error with a non-empty
\* message afterwards, loading is cleared and the transaction list is the
\* one before the failure.
C2_FailureToError ==
    [][\A r \in Throwing : AnalyzeCompletes(r) =>
          /\ error' \notin {Null, ""}
          /\ loading' = FALSE
          /\ SessionState' = "Error"
          /\ transactions' = transactions]_vars

\* C2 witness: an Error state reached by a failure that followed a success,
\* the earlier records still in the list.
C2_Witness ==
    /\ SessionState = "Error"
    /\ error = FailMessage
    /\ Len(transactions) > 0
    /\ inFlight = 0

\* C3: every response that does not conform to AnalysisResult ends the
\* request with the session in Error and the transaction list unchanged.
C3_NonConformingIsFailure ==
    [][\A r \in NonConforming : AnalyzeCompletes(r) =>
          /\ mounted'
          /\ SessionState' = "Error"
          /\ transactions' = transactions]_vars

\* C4: a successful analyze request sets the list to previous ++
\* result.transactions and clears loading; from Loading the session is Idle
\* afterwards. Two successes in a row from L give L ++ T1 ++ T2.
C4_SuccessAppends ==
    [][\A r \in Merged : AnalyzeCompletes(r) =>
          /\ transactions' = transactions \o r.value.transactions
          /\ loading' = FALSE
          /\ (loading => SessionState' = "Idle")]_vars

\* C4 witness: an Idle state whose list is longer than one response, so at
\* least two successful requests were merged.
C4_Witness ==
    /\ SessionState = "Idle"
    /\ inFlight = 0
    /\ Len(transactions) > MaxBatch
    /\ transactions[1] # transactions[Len(transactions)]

\* C5: an accepted reset empties the list and clears the error (Idle unless
\* a request is loading); a declined reset changes neither the list, the
\* pasted text nor the error.
C5_Reset ==
    [][\A c \in BOOLEAN : ClearData(c) =>
          IF c
          THEN /\ transactions' = <<>>
               /\ error' = Null
               /\ (~loading => SessionState' = "Idle")
          ELSE UNCHANGED <<transactions, pastedText, error>>]_vars

\* C5 witness: reset is offered in an Error state with a non-empty list and
\* pasted text.
C5_Witness ==
    /\ mounted
    /\ Len(transactions) > 0
    /\ SessionState = "Error"
    /\ pastedText # <<>>

\* C6: analyze triggered with no file, or with pasted text that is empty or
\* only whitespace, issues no request and changes neither loading, error
\* nor the transaction list.
C6_MissingInputIgnored ==
    [][((HandlePasteSubmit /\ IsBlank(pastedText)) \/ HandleFileUpload(NoFile)) =>
          UNCHANGED <<loading, error, transactions, inFlight, readers>>]_vars

\* C6 witness: the submit button's handler is reachable with text that is
\* not empty but only whitespace.
C6_Witness ==
    /\ mounted
    /\ inputMode = "text"
    /\ ~loading
    /\ pastedText # <<>>
    /\ IsBlank(pastedText)
    /\ readers + inFlight < MaxPending

\* C7: the summaries' totals add up to the sum of the amounts and to
\* totalSpent, and their counts add up to the length of the list.
C7_Conservation ==
    /\ SumTotal(categorySummary) = SumAmount(transactions)
    /\ SumTotal(categorySummary) = totalSpent
    /\ SumCount(categorySummary) = Len(transactions)

\* C7 witness: a full list over several categories with a refund, one
\* category holding more than one record.
C7_Witness ==
    /\ Len(transactions) = MaxTx
    /\ Len(categorySummary) = 2
    /\ \E i \in 1..Len(transactions) : transactions[i].amount < 0
    /\ totalSpent # 0

\* C8: the summary has exactly one entry for each category that occurs in
\* the list, each with a positive count, and is sorted by total descending.
C8_OnePerCategorySorted ==
    /\ {categorySummary[i].category : i \in 1..Len(categorySummary)}
         = {transactions[i].category : i \in 1..Len(transactions)}
    /\ \A i, j \in 1..Len(categorySummary) :
         categorySummary[i].category = categorySummary[j].category => i = j
    /\ \A i \in 1..Len(categorySummary) :
         categorySummary[i].count
           = Cardinality({k \in 1..Len(transactions) :
                            transactions[k].category = categorySummary[i].category})
    /\ \A i \in 1..Len(categorySummary) : categorySummary[i].count > 0
    /\ \A i \in 1..(Len(categorySummary) - 1) :
         categorySummary[i].total >= categorySummary[i + 1].total

\* C8 witness: three categories, the last total negative, and the sort has
\* moved the first record's category away from the front.
C8_Witness ==
    /\ Len(categorySummary) = 3
    /\ categorySummary[3].total < 0
    /\ categorySummary[1].category # transactions[1].category
    /\ categorySummary[1].total > categorySummary[2].total

\* C9: no failure escapes the analyze operation (App stays mounted) and
\* every started request ends with loading false, in Idle or Error.
C9_EveryRequestFinishes ==
    /\ [](mounted)
    /\ (loading ~> (~loading /\ mounted))

\* C10: loading is true whenever a request is in flight, and no error is
\* shown while loading is true.
C10_LoadingCoversInFlight ==
    /\ (inFlight > 0 => loading)
    /\ (loading => error = Null)

====
